---- MODULE Spec2Model ----
(***************************************************************************)
(* Sfc4q: generalized space-filling curves (Morton, Hilbert) over a        *)
(* recursively 4-partitioned grid, with half levels, and the SizedBigInt   *)
(* numerals that label the cells (src/src/GSfc4q.js, second copy of the    *)
(* classes, lines 754-1534).                                               *)
(*                                                                         *)
(* Encodings.  A level is an integer number of tenths (0.5 is 5, 1 is 10,  *)
(* 0.3 is 3).  A JavaScript value that may be null or undefined is a       *)
(* sequence: << >> for null, <<v>> for the value v.  A BigInt that meets   *)
(* the 64-bit masks of the Morton code is the set of the positions of its  *)
(* 1 bits.  A string is a sequence of one-character strings.               *)
(***************************************************************************)
EXTENDS Integers, Sequences, FiniteSets, TLC

VARIABLES
    curveName,  \* 'Morton' or 'Hilbert' (this.curveName)
    level,      \* this.level, in tenths
    blevel,     \* this.blevel
    isHalf,     \* this.isHalf
    nKeys,      \* this.nKeys
    nBKeys,     \* this.nBKeys
    keyBits,    \* this.keyBits
    bkeyBits,   \* this.bkeyBits
    nRefRows,   \* this.nRefRows
    res,        \* the last call on the curve: its name, arguments and outcome
    sbiX,       \* a SizedBigInt [val, bits], the one that is rendered
    sbiY,       \* a second SizedBigInt, the one that parses
    kx_label,   \* SizedBigInt.kx_baseLabel[l].label, for every registered l
    kx_tr,      \* SizedBigInt.kx_tr: the tables 'l-to-2' (to2) and '2-to-l' (from2)
    useRadix,   \* the base label the caller passes to toString and fromString
    out,        \* the last call on the numerals: its name and outcome
    base,       \* this.base of the labeled curve (GSfc4qLbl)
    sbiID,      \* this.sbiID, the SizedBigInt [val, bits] of the cell identifier
    id0,        \* this.id0, the grid identifier
    id0_maxBits \* this.id0_maxBits

curveVars == <<curveName, level, blevel, isHalf, nKeys, nBKeys, keyBits,
               bkeyBits, nRefRows, res>>

numVars == <<sbiX, sbiY, kx_label, kx_tr, useRadix, out>>

lblVars == <<base, sbiID, id0, id0_maxBits>>

vars == <<curveName, level, blevel, isHalf, nKeys, nBKeys, keyBits,
          bkeyBits, nRefRows, res, sbiX, sbiY, kx_label, kx_tr, useRadix, out,
          base, sbiID, id0, id0_maxBits>>

\* Largest integer level a call configures.
MaxLevel == 3

\* Largest width, in bits, of a SizedBigInt that is rendered.
MaxBits == 6

\* Largest length of a string and largest width limit (maxBits) that the input
\* methods of a SizedBigInt are called with.
MaxLen == 2

\* Largest width, in bits, of a value that those methods are called with.
MaxValBits == 3

\* Largest integer level of a labeled curve whose identifier is set.
MaxLblLevel == 2

\* Width, in bits, of the grid identifier id0 of a labeled curve.
MaxId0Bits == 2

\* Largest number of 1 bits in the two 32-bit inputs of the Morton code together.
MaxOnes == 2
MaxBuilds == 2

Tenths == 2 * 5
HalfLevel == Tenths \div 2

Null == << >>
Some(v) == <<v>>

\* ------------------------------------------------------------------------
\* JavaScript helpers

\* a || b on numbers: 0, null and undefined are falsy.
Falsy(a) == a = Null \/ a = Some(0)
JsOr(a, b) == IF Falsy(a) THEN b ELSE a

\* Math.ceil of a level given in tenths.
MathCeil(lv) == -((-lv) \div Tenths)

RECURSIVE Pow(_, _)
Pow(b, e) == IF e = 0 THEN 1 ELSE b * Pow(b, e - 1)

\* n.toString(2).length for n >= 0.
RECURSIVE BinLength(_)
BinLength(n) == IF n < 2 THEN 1 ELSE 1 + BinLength(n \div 2)

\* ------------------------------------------------------------------------
\* GSfc4q.refresh

\* The assignments of refresh(level) on an object whose level was prev
\* (Null in the constructor).  4n**BigInt(blevel) throws a RangeError for a
\* negative blevel, after level, blevel and isHalf were assigned.
refresh(prev, arg) ==
    LET lv0  == JsOr(JsOr(arg, prev), Some(Tenths))[1]
        bl   == MathCeil(lv0)
        half == (bl * Tenths # lv0)
        lv1  == bl * Tenths - (IF half THEN HalfLevel ELSE 0)
    IN  IF bl < 0
        THEN [threw |-> TRUE, level |-> lv1, blevel |-> bl, isHalf |-> half]
        ELSE LET nB == Pow(4, bl)
                 kb == BinLength(nB - 1)
             IN  [threw |-> FALSE, level |-> lv1, blevel |-> bl, isHalf |-> half,
                  nBKeys |-> nB,
                  nKeys |-> IF half THEN nB \div 2 ELSE nB,
                  bkeyBits |-> kb,
                  keyBits |-> IF half THEN kb - 1 ELSE kb,
                  nRefRows |-> Pow(2, bl)]

\* ------------------------------------------------------------------------
\* GSfc4qLbl_Morton

Positions == 0 .. 63

\* BigInt(n).  A negative n is, in two's complement, the complement of -n-1; the
\* positions kept are those the 64-bit masks can select.
RECURSIVE ToBig(_)
ToBig(n) == IF n < 0 THEN Positions \ ToBig(-n - 1)
            ELSE IF n = 0 THEN {}
            ELSE (IF n % 2 = 1 THEN {0} ELSE {}) \cup {i + 1 : i \in ToBig(n \div 2)}

RECURSIVE FromBig(_)
FromBig(S) == IF S = {} THEN 0
              ELSE LET i == CHOOSE k \in S : TRUE IN Pow(2, i) + FromBig(S \ {i})

ShiftL(S, k) == {i + k : i \in S}
ShiftR(S, k) == {i - k : i \in {j \in S : j >= k}}

\* The masks: in each group of 2*w bits the low w bits are set.
Mask(w) == {i \in Positions : i % (2 * w) < w}

Mask_0000ffff0000ffff == Mask(16)
Mask_00ff00ff00ff00ff == Mask(8)
Mask_0f0f0f0f0f0f0f0f == Mask(4)
Mask_3333333333333333 == Mask(2)
Mask_5555555555555555 == Mask(1)
Mask_00000000ffffffff == Mask(32)

\* _bkey_interleave without its first step, the one that spreads the high half.
_bkey_interleave_no16(x) ==
    LET x2 == (x  \cup ShiftL(x, 8))  \cap Mask_00ff00ff00ff00ff
        x3 == (x2 \cup ShiftL(x2, 4)) \cap Mask_0f0f0f0f0f0f0f0f
        x4 == (x3 \cup ShiftL(x3, 2)) \cap Mask_3333333333333333
    IN  (x4 \cup ShiftL(x4, 1)) \cap Mask_5555555555555555

_bkey_interleave(x) ==
    LET x1 == (x  \cup ShiftL(x, 16)) \cap Mask_0000ffff0000ffff
        x2 == (x1 \cup ShiftL(x1, 8)) \cap Mask_00ff00ff00ff00ff
        x3 == (x2 \cup ShiftL(x2, 4)) \cap Mask_0f0f0f0f0f0f0f0f
        x4 == (x3 \cup ShiftL(x3, 2)) \cap Mask_3333333333333333
    IN  (x4 \cup ShiftL(x4, 1)) \cap Mask_5555555555555555

deinterleave(x) ==
    LET x0 == x \cap Mask_5555555555555555
        x1 == (x0 \cup ShiftR(x0, 1)) \cap Mask_3333333333333333
        x2 == (x1 \cup ShiftR(x1, 2)) \cap Mask_0f0f0f0f0f0f0f0f
        x3 == (x2 \cup ShiftR(x2, 4)) \cap Mask_00ff00ff00ff00ff
        x4 == (x3 \cup ShiftR(x3, 8)) \cap Mask_0000ffff0000ffff
    IN  (x4 \cup ShiftR(x4, 16)) \cap Mask_00000000ffffffff

\* bkey_encode and bkey_decode on BigInts of any width up to 64 bits.
Morton_bkey_encode_wide(x, y) ==
    _bkey_interleave(x) \cup ShiftL(_bkey_interleave(y), 1)

\* bkey_decode with x read from the odd bits and y from the even bits.
Morton_bkey_decode_wide_swapped(d) ==
    << deinterleave(ShiftR(d, 1)), deinterleave(d) >>

Morton_bkey_decode_wide(d) ==
    << deinterleave(d), deinterleave(ShiftR(d, 1)) >>

Morton_bkey_encode(x, y) == FromBig(Morton_bkey_encode_wide(ToBig(x), ToBig(y)))

\* bkey_decode reading y from the even bits too.
Morton_bkey_decode_noShift(d) ==
    << FromBig(deinterleave(ToBig(d))), FromBig(deinterleave(ToBig(d))) >>

Morton_bkey_decode(d) ==
    LET xy == Morton_bkey_decode_wide(ToBig(d))
    IN  << FromBig(xy[1]), FromBig(xy[2]) >>

\* ------------------------------------------------------------------------
\* GSfc4qLbl_Hilbert

\* (x & s) > 0n for a power of two s and a BigInt x of either sign.
BitSet(x, s) == (x \div s) % 2 = 1

\* _rot reflecting about n instead of n-1.
_rot_offByOne(n, ij, rx, ry) ==
    IF ry = 0
    THEN LET f == IF rx = 1 THEN <<n - ij[1], n - ij[2]>> ELSE ij
         IN  <<f[2], f[1]>>
    ELSE ij

\* _rot reflecting without exchanging i and j.
_rot_noSwap(n, ij, rx, ry) ==
    IF ry = 0
    THEN IF rx = 1 THEN <<n - 1 - ij[1], n - 1 - ij[2]>> ELSE ij
    ELSE ij

_rot(n, ij, rx, ry) ==
    IF ry = 0
    THEN LET f == IF rx = 1 THEN <<n - 1 - ij[1], n - 1 - ij[2]>> ELSE ij
         IN  <<f[2], f[1]>>
    ELSE ij

\* The loop of _bkey_decode taking ry from the low bit of t alone.
RECURSIVE HilbertDecodeLoop_noXor(_, _, _, _)
HilbertDecodeLoop_noXor(s, t, ij, rows) ==
    IF s < rows
    THEN LET rx == (t \div 2) % 2
             ry == t % 2
             r  == _rot(s, ij, rx, ry)
         IN  HilbertDecodeLoop_noXor(s * 2, t \div 4, <<r[1] + s * rx, r[2] + s * ry>>, rows)
    ELSE ij

RECURSIVE HilbertDecodeLoop(_, _, _, _)
HilbertDecodeLoop(s, t, ij, rows) ==
    IF s < rows
    THEN LET rx == (t \div 2) % 2
             ry == ((t % 2) + rx) % 2
             r  == _rot(s, ij, rx, ry)
         IN  HilbertDecodeLoop(s * 2, t \div 4, <<r[1] + s * rx, r[2] + s * ry>>, rows)
    ELSE ij

\* _bkey_decode with the 2x2 grid laid out as its transpose.
_bkey_decode_transposed2(key, rows) ==
    LET ij == HilbertDecodeLoop(1, key, <<0, 0>>, rows)
    IN  IF rows = 2 THEN <<ij[2], ij[1]>> ELSE ij

_bkey_decode(key, rows) == HilbertDecodeLoop(1, key, <<0, 0>>, rows)

RECURSIVE HilbertEncodeLoop(_, _, _)
HilbertEncodeLoop(s, key, ij) ==
    IF s >= 1
    THEN LET rx == IF BitSet(ij[1], s) THEN 1 ELSE 0
             ry == IF BitSet(ij[2], s) THEN 1 ELSE 0
             q  == IF rx = 1 THEN 3 - ry ELSE ry
         IN  HilbertEncodeLoop(s \div 2, key + s * s * q, _rot(s, ij, rx, ry))
    ELSE key

_bkey_encode(i, j, rows) == HilbertEncodeLoop(rows \div 2, 0, <<i, j>>)

\* ------------------------------------------------------------------------
\* Dispatch to the concrete curve, and the generalized key methods of GSfc4q

bkey_decode(name, rows, bkey) ==
    IF name = "Morton" THEN Morton_bkey_decode(bkey) ELSE _bkey_decode(bkey, rows)

bkey_encode(name, rows, i, j) ==
    IF name = "Morton" THEN Morton_bkey_encode(i, j) ELSE _bkey_encode(i, j, rows)

\* bkey_encode as the BigInt it returns, which for a coordinate outside the grid
\* may be as wide as 64 bits.
bkey_encode_wide(name, rows, i, j) ==
    IF name = "Morton" THEN Morton_bkey_encode_wide(ToBig(i), ToBig(j))
    ELSE ToBig(_bkey_encode(i, j, rows))

\* key_decode taking the key itself as the first bkey of the pair.
key_decode_noDouble(name, rows, half, key) ==
    IF half
    THEN << bkey_decode(name, rows, key), bkey_decode(name, rows, key + 1) >>
    ELSE << bkey_decode(name, rows, key), Null >>

key_decode(name, rows, half, key) ==
    IF half
    THEN LET bkey == 2 * key
         IN  << bkey_decode(name, rows, bkey), bkey_decode(name, rows, bkey + 1) >>
    ELSE << bkey_decode(name, rows, key), Null >>

\* key_encode without the normalization to the even bkey of the pair.
key_encode_noSnap(name, rows, half, i, j) ==
    IF half
    THEN LET b == bkey_encode(name, rows, i, j)
         IN  << Some(b), Some(b + 1) >>
    ELSE << Some(bkey_encode(name, rows, i, j)), Null >>

key_encode(name, rows, half, i, j) ==
    IF half
    THEN LET b     == bkey_encode(name, rows, i, j)
             key   == b \div 2
             bkey1 == key * 2
         IN  << Some(bkey1), Some(bkey1 + 1) >>
    ELSE << Some(bkey_encode(name, rows, i, j)), Null >>

\* ------------------------------------------------------------------------
\* SizedBigInt: the catalogue of bases (kx_baseLabel)

\* The entries kx_RefreshDefaults registers, and the aliases that
\* kx_baseLabel_setRules adds for the entries marked isDefault.
BaseLabels == {"2h", "4h", "8h", "16h", "4js", "8js", "16js", "32hex", "32nvu",
               "32rfc", "32ghs", "64url"}

kx_isAlias ==
    [a \in {"2", "4", "8", "16", "32", "64"} |->
        CASE a = "2" -> "2h" [] a = "4" -> "4js" [] a = "8" -> "8js"
          [] a = "16" -> "16js" [] a = "32" -> "32hex" [] a = "64" -> "64url"]

kx_alphabet(label) ==
    CASE label = "2h" ->
           <<"0", "1">>
      [] label = "4h" ->
           <<"0", "1", "2", "3", "G", "Q">>
      [] label = "8h" ->
           <<"0", "1", "2", "3", "4", "5", "6", "7", "G", "H", "M", "Q", "R", "V">>
      [] label = "16h" ->
           <<"0", "1", "2", "3", "4", "5", "6", "7", "8", "9", "a", "b", "c", "d",
             "e", "f", "G", "H", "J", "K", "M", "N", "P", "Q", "R", "S", "T", "V",
             "Z", "Y">>
      [] label = "4js" ->
           <<"0", "1", "2", "3">>
      [] label = "8js" ->
           <<"0", "1", "2", "3", "4", "5", "6", "7">>
      [] label = "16js" ->
           <<"0", "1", "2", "3", "4", "5", "6", "7", "8", "9", "a", "b", "c", "d",
             "e", "f">>
      [] label = "32hex" ->
           <<"0", "1", "2", "3", "4", "5", "6", "7", "8", "9", "a", "b", "c", "d",
             "e", "f", "g", "h", "i", "j", "k", "l", "m", "n", "o", "p", "q", "r",
             "s", "t", "u", "v">>
      [] label = "32nvu" ->
           <<"0", "1", "2", "3", "4", "5", "6", "7", "8", "9", "B", "C", "D", "F",
             "G", "H", "J", "K", "L", "M", "N", "P", "Q", "R", "S", "T", "U", "V",
             "W", "X", "Y", "Z">>
      [] label = "32rfc" ->
           <<"A", "B", "C", "D", "E", "F", "G", "H", "I", "J", "K", "L", "M", "N",
             "O", "P", "Q", "R", "S", "T", "U", "V", "W", "X", "Y", "Z", "2", "3",
             "4", "5", "6", "7">>
      [] label = "32ghs" ->
           <<"0", "1", "2", "3", "4", "5", "6", "7", "8", "9", "b", "c", "d", "e",
             "f", "g", "h", "j", "k", "m", "n", "p", "q", "r", "s", "t", "u", "v",
             "w", "x", "y", "z">>
      [] label = "64url" ->
           <<"A", "B", "C", "D", "E", "F", "G", "H", "I", "J", "K", "L", "M", "N",
             "O", "P", "Q", "R", "S", "T", "U", "V", "W", "X", "Y", "Z", "a", "b",
             "c", "d", "e", "f", "g", "h", "i", "j", "k", "l", "m", "n", "o", "p",
             "q", "r", "s", "t", "u", "v", "w", "x", "y", "z", "0", "1", "2", "3",
             "4", "5", "6", "7", "8", "9", "-", "_">>

kx_isHierar(label) == label \in {"2h", "4h", "8h", "16h"}

\* base: given for the hierarchical entries, alphabet.length for the others.
kx_base(label) ==
    CASE label = "2h" -> 2 [] label = "4h" -> 4 [] label = "8h" -> 8
      [] label = "16h" -> 16 [] OTHER -> Len(kx_alphabet(label))

RECURSIVE Log2(_)
Log2(n) == IF n < 2 THEN 0 ELSE 1 + Log2(n \div 2)

kx_bitsPerDigit(label) == Log2(kx_base(label))

\* baseLabel(label,false): the entry a label or an alias names.
baseLabel(label) ==
    IF label \in DOMAIN kx_isAlias THEN kx_isAlias[label] ELSE label

\* ------------------------------------------------------------------------
\* Strings

Min(a, b) == IF a < b THEN a ELSE b

\* n.toString(2)
RECURSIVE Bin(_)
Bin(n) == IF n < 2 THEN << (IF n = 1 THEN "1" ELSE "0") >>
          ELSE Bin(n \div 2) \o << (IF n % 2 = 1 THEN "1" ELSE "0") >>

\* s.padStart(width,'0')
RECURSIVE PadStart(_, _)
PadStart(s, width) == IF Len(s) >= width THEN s ELSE PadStart(<<"0">> \o s, width)

\* BigInt("0b"+s) for a string of 0s and 1s
RECURSIVE ParseBin(_)
ParseBin(s) == IF s = << >> THEN 0
               ELSE 2 * ParseBin(SubSeq(s, 1, Len(s) - 1)) + (IF s[Len(s)] = "1" THEN 1 ELSE 0)

IsBitString(s) == \A k \in DOMAIN s : s[k] \in {"0", "1"}

HexDigits == {"0", "1", "2", "3", "4", "5", "6", "7", "8", "9",
              "a", "b", "c", "d", "e", "f", "A", "B", "C", "D", "E", "F"}

IsHexString(s) == \A k \in DOMAIN s : s[k] \in HexDigits

\* What r += tr[chunk] appends when the table has no such chunk.
Undefined == <<"u", "n", "d", "e", "f", "i", "n", "e", "d">>

IsPrefix(a, b) == Len(a) <= Len(b) /\ SubSeq(b, 1, Len(a)) = a

\* ------------------------------------------------------------------------
\* SizedBigInt: the translation tables (kx_tr)

\* A base-to-2 table is the pair of the sequence of its property names, in the
\* order JavaScript enumerates them (the names that are array indexes, '0'..'9',
\* first and ascending, then the other names in the order they were created), and
\* of the function from a name to its value.
DecimalDigits == <<"0", "1", "2", "3", "4", "5", "6", "7", "8", "9">>

IsIndexKey(c) == \E k \in DOMAIN DecimalDigits : DecimalDigits[k] = c

Range(f) == {f[k] : k \in DOMAIN f}

EmptyTable == [keys |-> << >>, map |-> << >>]

\* The short codes with the code of one bit given to two symbols.
ordList_repeated(r_base) ==
    CASE r_base = 4 -> << <<"0">>, <<"0">> >>
      [] r_base = 8 -> << <<"0">>, <<"0">>, <<"0", "1">>,
                        <<"1">>, <<"1", "0">>, <<"1", "1">> >>
      [] OTHER -> << <<"0">>, <<"0">>, <<"0", "0", "0">>, <<"0", "0", "1">>,
                     <<"0", "1">>, <<"0", "1", "0">>, <<"0", "1", "1">>,
                     <<"1">>, <<"1", "0">>, <<"1", "0", "0">>, <<"1", "0", "1">>,
                     <<"1", "1">>, <<"1", "1", "0">>, <<"1", "1", "1">> >>

\* The short codes of the hierarchical bases, in the order of the reserved symbols.
ordList(r_base) ==
    CASE r_base = 4 -> << <<"0">>, <<"1">> >>
      [] r_base = 8 -> << <<"0">>, <<"0", "0">>, <<"0", "1">>,
                        <<"1">>, <<"1", "0">>, <<"1", "1">> >>
      [] OTHER -> << <<"0">>, <<"0", "0">>, <<"0", "0", "0">>, <<"0", "0", "1">>,
                     <<"0", "1">>, <<"0", "1", "0">>, <<"0", "1", "1">>,
                     <<"1">>, <<"1", "0">>, <<"1", "0", "0">>, <<"1", "0", "1">>,
                     <<"1", "1">>, <<"1", "1", "0">>, <<"1", "1", "1">> >>

\* The assignments kx_tr[label][c] = ... of kx_trConfig for the entry b, as a
\* function from the position of c in the alphabet: the digits, then, for a
\* hierarchical entry, the short codes.
Assigned(b) ==
    LET n == kx_base(b) + (IF kx_isHierar(b) THEN Len(ordList(kx_base(b))) ELSE 0)
    IN  [k \in 1 .. n |->
            IF k <= kx_base(b)
            THEN PadStart(Bin(k - 1), kx_bitsPerDigit(b))
            ELSE ordList(kx_base(b))[k - kx_base(b)]]

\* The table after those assignments on the table old.
Assign(old, b) ==
    LET a       == Assigned(b)
        symbols == SubSeq(kx_alphabet(b), 1, Len(a))
        IsOld(c)   == c \in Range(old.keys)
        IsNew(c)   == c \in Range(symbols)
        Named(c)   == IsOld(c) \/ IsNew(c)
        Created(c) == ~IsOld(c) /\ ~IsIndexKey(c)
        Other(c)   == ~IsIndexKey(c)
    IN  [keys |-> SelectSeq(DecimalDigits, Named) \o SelectSeq(old.keys, Other)
                      \o SelectSeq(symbols, Created),
         map  |-> [c \in Range(old.keys) \cup Range(symbols) |->
                      IF IsNew(c)
                      THEN a[CHOOSE k \in DOMAIN a : symbols[k] = c]
                      ELSE old.map[c]]]

\* objSwap: the object with names and values exchanged; of two properties with
\* the same value the one enumerated later stays.
objSwap(tbl) ==
    [v \in Range(tbl.map) |->
        LET last == CHOOSE k \in DOMAIN tbl.keys :
                        /\ tbl.map[tbl.keys[k]] = v
                        /\ \A m \in DOMAIN tbl.keys : tbl.map[tbl.keys[m]] = v => m <= k
        IN  tbl.keys[last]]

\* kx_trConfig exchanging names and values of the table as it was before
\* the assignments of this call.
kx_trConfig_swapOld(b, lbl, tr) ==
    IF kx_base(b) = 2 THEN tr
    ELSE LET name == lbl[b]
             old  == IF tr.to2[name] = Null THEN EmptyTable ELSE tr.to2[name][1]
             tbl  == Assign(old, b)
         IN  [to2    |-> [tr.to2 EXCEPT ![name] = Some(tbl)],
              from2  |-> [tr.from2 EXCEPT ![name] = Some(objSwap(old))],
              builds |-> [tr.builds EXCEPT ![name] = @ + 1]]

\* kx_trConfig(baseLabel) on the entry registered as baseLabel, whose label
\* field is lbl[baseLabel]: the tables are stored under the label field.
\* builds counts the objects that were assigned to kx_tr['2-to-' + label].
kx_trConfig(b, lbl, tr) ==
    IF kx_base(b) = 2 THEN tr
    ELSE LET name == lbl[b]
             old  == IF tr.to2[name] = Null THEN EmptyTable ELSE tr.to2[name][1]
             tbl  == Assign(old, b)
         IN  [to2    |-> [tr.to2 EXCEPT ![name] = Some(tbl)],
              from2  |-> [tr.from2 EXCEPT ![name] = Some(objSwap(tbl))],
              builds |-> [tr.builds EXCEPT ![name] = @ + 1]]

\* ------------------------------------------------------------------------
\* SizedBigInt: input methods

fromNull == [val |-> Null, bits |-> 0]

Abs(n) == IF n < 0 THEN -n ELSE n

\* setBits_byMax where a positive maxBits is a maximum only, as a negative one.
setBits_byMax_capOnly(maxBits, inputLen, onErr_cutLSD) ==
    IF Falsy(maxBits)
    THEN [bits |-> inputLen, cutByMax |-> FALSE, maxBits |-> 0, threw |-> FALSE]
    ELSE LET m == Abs(maxBits[1])
         IN  IF inputLen > m
             THEN IF onErr_cutLSD
                  THEN [bits |-> m, cutByMax |-> TRUE, maxBits |-> m, threw |-> FALSE]
                  ELSE [bits |-> inputLen, cutByMax |-> FALSE, maxBits |-> m, threw |-> TRUE]
             ELSE [bits |-> inputLen, cutByMax |-> FALSE, maxBits |-> m, threw |-> FALSE]

\* setBits_byMax: the bits it leaves, whether it asks to cut, the maxBits it
\* returns, and whether it threw (ERR4, after this.bits = inputLen).
setBits_byMax(maxBits, inputLen, onErr_cutLSD) ==
    IF Falsy(maxBits)
    THEN [bits |-> inputLen, cutByMax |-> FALSE, maxBits |-> 0, threw |-> FALSE]
    ELSE LET m == Abs(maxBits[1])
             forceBits == IF maxBits[1] < 0 THEN 0 ELSE m
         IN  IF inputLen > m
             THEN IF onErr_cutLSD
                  THEN [bits |-> m, cutByMax |-> TRUE, maxBits |-> m, threw |-> FALSE]
                  ELSE [bits |-> inputLen, cutByMax |-> FALSE, maxBits |-> m, threw |-> TRUE]
             ELSE [bits |-> IF inputLen < forceBits THEN forceBits ELSE inputLen,
                   cutByMax |-> FALSE, maxBits |-> m, threw |-> FALSE]

\* fromInt(val, maxBits, onErr_cutLSD) for a non-negative bigint (or number), for
\* null, and for the object {val, bits} that fromHexString passes (kind "object"),
\* which is neither 'bigint' nor 'number' and so takes the fromNull branch.
fromInt(kind, val, maxBits, onErr_cutLSD) ==
    IF kind = "bigint"
    THEN LET len == BinLength(val)
             c   == setBits_byMax(maxBits, len, onErr_cutLSD)
         IN  [sbi |-> [val |-> Some(IF c.cutByMax THEN val \div Pow(2, len - c.bits) ELSE val),
                       bits |-> c.bits],
              threw |-> c.threw]
    ELSE [sbi |-> fromNull, threw |-> FALSE]

\* fromInt for a bigint given by its bits.
fromInt_wide(S, maxBits, onErr_cutLSD) ==
    LET len == IF S = {} THEN 1 ELSE 1 + (CHOOSE k \in S : \A m \in S : m <= k)
        c   == setBits_byMax(maxBits, len, onErr_cutLSD)
    IN  [sbi |-> [val |-> Some(FromBig(IF c.cutByMax THEN ShiftR(S, len - c.bits) ELSE S)),
                  bits |-> c.bits],
         threw |-> c.threw]

\* fromBitString: BigInt("0b"+strval) throws a SyntaxError, after the bits
\* were set, when strval is no string of 0s and 1s.
fromBitString(this, strval, maxBits, onErr_cutLSD) ==
    IF strval = << >> THEN [sbi |-> fromNull, threw |-> FALSE]
    ELSE LET c == setBits_byMax(maxBits, Len(strval), onErr_cutLSD)
             cut == IF c.cutByMax THEN SubSeq(strval, 1, c.maxBits) ELSE strval
         IN  IF c.threw \/ ~IsBitString(cut)
             THEN [sbi |-> [val |-> this.val, bits |-> c.bits], threw |-> TRUE]
             ELSE [sbi |-> [val |-> Some(ParseBin(cut)), bits |-> c.bits], threw |-> FALSE]

\* fromHexString: BigInt("0x"+strval) throws a SyntaxError for a string that is
\* not hexadecimal; otherwise the value goes to fromInt as an object.
fromHexString(this, strval, maxBits, onErr_cutLSD) ==
    IF strval = << >> THEN [sbi |-> fromNull, threw |-> FALSE]
    ELSE IF ~IsHexString(strval) THEN [sbi |-> this, threw |-> TRUE]
    ELSE fromInt("object", << >>, maxBits, onErr_cutLSD)

\* fromString(strval, radix, maxBits, onErr_cutLSD): the object, the label
\* fields of the catalogue (the test r.label='16js' assigns), and whether it threw.
\* The table lookup after that test is never reached.
fromString(this, strval, radix, maxBits, onErr_cutLSD, lbl) ==
    LET r == baseLabel(radix)
    IN  IF strval = << >> THEN [sbi |-> fromNull, threw |-> FALSE, lbl |-> lbl]
        ELSE IF kx_base(r) = 2
        THEN LET f == fromBitString(this, strval, maxBits, onErr_cutLSD)
             IN  [sbi |-> f.sbi, threw |-> f.threw, lbl |-> lbl]
        ELSE LET f == fromHexString(this, strval, maxBits, onErr_cutLSD)
             IN  [sbi |-> f.sbi, threw |-> f.threw, lbl |-> [lbl EXCEPT ![r] = "16js"]]

\* A parameter with a default value: the default when the caller omits it.
Default(a, d) == IF a = Null THEN d ELSE a[1]

\* fromAny(val, radix, maxBits, onErr_cutLSD=true) for val a bigint or number
\* (kind "bigint", or "wide" when given by its bits), a string (kind "string") or
\* null or undefined (any other kind).
fromAny(this, kind, val, radix, maxBits, onErr_cutLSD, lbl) ==
    LET cut == Default(onErr_cutLSD, TRUE)
    IN  IF kind = "string"
        THEN fromString(this, val, Default(radix, "4"), maxBits, cut, lbl)
        ELSE LET f == IF kind = "wide" THEN fromInt_wide(val, maxBits, cut)
                      ELSE fromInt(kind, val, maxBits, cut)
             IN  [sbi |-> f.sbi, threw |-> f.threw, lbl |-> lbl]

\* ------------------------------------------------------------------------
\* SizedBigInt: output methods

\* toBitString without the padding to bits characters.
toBitString_noPad(this) ==
    IF this.val = Null THEN << >> ELSE Bin(this.val[1])

toBitString(this) ==
    IF this.val = Null THEN << >> ELSE PadStart(Bin(this.val[1]), this.bits)

\* Translate grouping the bits from the least significant end, as a plain
\* radix conversion does: the short chunk comes first.
RECURSIVE Translate_fromLeastSignificant(_, _, _)
Translate_fromLeastSignificant(b, bpd, t) ==
    IF b = << >> THEN << >>
    ELSE LET n == IF Len(b) % bpd = 0 THEN bpd ELSE Len(b) % bpd
             chunk == SubSeq(b, 1, n)
         IN  (IF chunk \in DOMAIN t THEN << t[chunk] >> ELSE Undefined)
             \o Translate_fromLeastSignificant(SubSeq(b, n + 1, Len(b)), bpd, t)

\* r += tr[chunk] over the chunks of bitsPerDigit characters.
RECURSIVE Translate(_, _, _)
Translate(b, bpd, t) ==
    IF b = << >> THEN << >>
    ELSE LET n == Min(bpd, Len(b))
             chunk == SubSeq(b, 1, n)
         IN  (IF chunk \in DOMAIN t THEN << t[chunk] >> ELSE Undefined)
             \o Translate(SubSeq(b, n + 1, Len(b)), bpd, t)

\* toString(radix): the string, the tables after the call, and whether it threw
\* (a TypeError when kx_trConfig left no table under the label it was asked for).
toString(this, radix, lbl, tr) ==
    LET rTo == baseLabel(radix)
        b   == toBitString(this)
    IN  IF this.val = Null THEN [str |-> << >>, tr |-> tr, threw |-> FALSE]
        ELSE IF kx_base(rTo) = 2 THEN [str |-> b, tr |-> tr, threw |-> FALSE]
        ELSE LET name == lbl[rTo]
                 tr1  == IF tr.from2[name] = Null THEN kx_trConfig(name, lbl, tr) ELSE tr
             IN  IF tr1.from2[name] = Null
                 THEN [str |-> << >>, tr |-> tr1, threw |-> TRUE]
                 ELSE [str |-> Translate(b, kx_bitsPerDigit(rTo), tr1.from2[name][1]),
                       tr |-> tr1, threw |-> FALSE]

\* ------------------------------------------------------------------------
\* GSfc4qLbl: the labeled curve

\* lblRefresh(base, id0, id0_maxBits) on the fields this = [base, id0,
\* id0_maxBits, sbiID] (base Null in the constructor): the fields and the tables
\* it leaves.  id0 is a bigint or undefined.
lblRefresh(this, baseArg, id0Arg, maxBitsArg, lbl, tr) ==
    LET mb      == IF Falsy(maxBitsArg) THEN this.id0_maxBits ELSE maxBitsArg
        named   == baseArg # Null \/ this.base = Null
        b       == IF named THEN Some(lbl[baseLabel(Default(baseArg, "4h"))])
                   ELSE this.base
        tr1     == IF named /\ b # this.base THEN kx_trConfig(b[1], lbl, tr) ELSE tr
        id0_tmp == fromAny(fromNull, IF id0Arg = Null THEN "undefined" ELSE "bigint",
                           Default(id0Arg, 0), b, mb, Some(TRUE), lbl).sbi
        fresh   == id0Arg # Null /\ id0Arg # this.id0
    IN  [base        |-> b,
         id0         |-> IF fresh THEN id0_tmp.val ELSE this.id0,
         id0_maxBits |-> IF fresh THEN Some(id0_tmp.bits) ELSE this.id0_maxBits,
         sbiID       |-> IF fresh THEN fromNull ELSE this.sbiID,
         tr          |-> tr1]

\* setId(id, onErr_cutLSD=false)
setId(this, bits, maxBits0, lblbase, kind, id, onErr_cutLSD, lbl) ==
    LET IDbits == bits + (IF Falsy(maxBits0) THEN 0 ELSE maxBits0[1])
    IN  fromAny(this, kind, id, Some(lblbase), Some(IDbits),
                Some(Default(onErr_cutLSD, FALSE)), lbl)

\* setKey passing no width to fromAny.
setKey_noWidth(this, bits, lblbase, kind, key, onErr_cutLSD, lbl) ==
    fromAny(this, kind, key, Some(lblbase), Null,
            Some(Default(onErr_cutLSD, TRUE)), lbl)

\* setKey(key, onErr_cutLSD=true), and setBkey with bkeyBits for bits
setKey(this, bits, lblbase, kind, key, onErr_cutLSD, lbl) ==
    fromAny(this, kind, key, Some(lblbase), Some(bits),
            Some(Default(onErr_cutLSD, TRUE)), lbl)

\* setID_byKey(key): the concatenation with id0 is a comment in the source.
setID_byKey(this, bits, maxBits0, lblbase, key, lbl) ==
    setId(this, bits, maxBits0, lblbase, "bigint", key, Null, lbl)

\* setBkey_byIJ(i,j): key_encode(i,j)[0] is the bkey itself at an integer level
\* and, at a half level, the even bkey of the pair, which is then halved.
setBkey_byIJ(this, name, rows, half, bits, lblbase, i, j, lbl) ==
    LET max == rows - 1
    IN  IF i > max \/ j > max THEN [sbi |-> this, threw |-> FALSE, lbl |-> lbl]
        ELSE LET bkey == bkey_encode_wide(name, rows, i, j)
                 key  == IF half THEN ShiftR(bkey, 1) ELSE bkey
             IN  setKey(this, bits, lblbase, "wide", key, Null, lbl)

\* id_toString(otherbase=null)
id_toString(this, lblbase, otherbase, lbl, tr) ==
    toString(this, Default(otherbase, lblbase), lbl, tr)

\* ------------------------------------------------------------------------
\* The curve object

CurveNames == {"Morton", "Hilbert"}

\* Arguments of refresh and of the constructor: null, the multiples of 0.5
\* from -1.5 to MaxLevel, and the levels 0.3 above an integer (-0.7, 0.3, 1.3).
LevelArgs ==
    {Null} \cup {Some(l) : l \in {k \in (-15) .. (MaxLevel * Tenths) :
                                    k % HalfLevel = 0 \/ k % Tenths = 3}}

\* kx_RefreshDefaults, run by the first constructor: every entry's label is the
\* key it is registered under, and no table is built.
FreshLabels == [l \in BaseLabels |-> l]

NoTables ==
    [to2    |-> [l \in BaseLabels |-> Null],
     from2  |-> [l \in BaseLabels |-> Null],
     builds |-> [l \in BaseLabels |-> 0]]

RegistryBuilt ==
    /\ kx_label = FreshLabels
    /\ kx_tr = NoTables

\* The fields a GSfc4qLbl constructor leaves after super(level): base null,
\* sbiID = new SizedBigInt(), then lblRefresh(base, id0, id0_maxBits).
GSfc4qLbl(baseArg, id0Arg, maxBitsArg) ==
    lblRefresh([base |-> Null, id0 |-> Null, id0_maxBits |-> Null, sbiID |-> fromNull],
               baseArg, id0Arg, maxBitsArg, FreshLabels, NoTables)

\* new GSfc4qLbl_Morton(level) / new GSfc4qLbl_Hilbert(level): the object
\* exists when refresh did not throw.
Init ==
    \E name \in CurveNames, arg \in LevelArgs :
        LET r == refresh(Null, arg)
            c == GSfc4qLbl(Null, Null, Null)
        IN  /\ ~r.threw
            /\ curveName = name
            /\ level = r.level
            /\ blevel = r.blevel
            /\ isHalf = r.isHalf
            /\ nKeys = r.nKeys
            /\ nBKeys = r.nBKeys
            /\ keyBits = r.keyBits
            /\ bkeyBits = r.bkeyBits
            /\ nRefRows = r.nRefRows
            /\ res = [op |-> "new", arg |-> arg, ret |-> Null, threw |-> FALSE]
            /\ kx_label = FreshLabels
            /\ kx_tr = c.tr
            /\ base = c.base[1]
            /\ sbiID = c.sbiID
            /\ id0 = c.id0
            /\ id0_maxBits = c.id0_maxBits
            /\ sbiX = fromNull
            /\ sbiY = fromNull
            /\ useRadix = "4h"
            /\ out = [op |-> "new", str |-> << >>, threw |-> FALSE]

Refresh ==
    \E arg \in LevelArgs :
        LET r == refresh(Some(level), arg)
        IN  /\ level' = r.level
            /\ blevel' = r.blevel
            /\ isHalf' = r.isHalf
            /\ IF r.threw
               THEN UNCHANGED <<nKeys, nBKeys, keyBits, bkeyBits, nRefRows>>
               ELSE /\ nKeys' = r.nKeys
                    /\ nBKeys' = r.nBKeys
                    /\ keyBits' = r.keyBits
                    /\ bkeyBits' = r.bkeyBits
                    /\ nRefRows' = r.nRefRows
            /\ res' = [op |-> "refresh", arg |-> arg, ret |-> Null, threw |-> r.threw]
            /\ UNCHANGED <<curveName, numVars, lblVars>>

\* The three query methods below leave the object as it is, so a second query on
\* the same configuration reaches no state that the first one does not: they are
\* taken once after each (re)configuration.
Configured == res.op \in {"new", "refresh"}

\* key_decode(key), for every key of the public grid and the first one past it.
KeyDecode ==
    \E key \in 0 .. nKeys :
        /\ Configured
        /\ res' = [op |-> "key_decode", arg |-> <<key>>,
                   ret |-> key_decode(curveName, nRefRows, isHalf, key),
                   threw |-> FALSE]
        /\ UNCHANGED <<curveName, level, blevel, isHalf, nKeys, nBKeys, keyBits,
                       bkeyBits, nRefRows, numVars, lblVars>>

\* key_encode(i,j), for every coordinate of the blind grid and the first
\* row and column past it.
KeyEncode ==
    \E i \in 0 .. nRefRows, j \in 0 .. nRefRows :
        /\ Configured
        /\ res' = [op |-> "key_encode", arg |-> <<i, j>>,
                   ret |-> key_encode(curveName, nRefRows, isHalf, i, j),
                   threw |-> FALSE]
        /\ UNCHANGED <<curveName, level, blevel, isHalf, nKeys, nBKeys, keyBits,
                       bkeyBits, nRefRows, numVars, lblVars>>

\* bkey_decode(bkey) followed by bkey_encode of the coordinate it returned.
BkeyRoundTrip ==
    \E bkey \in 0 .. (nBKeys - 1) :
        LET ij == bkey_decode(curveName, nRefRows, bkey)
        IN  /\ Configured
            /\ res' = [op |-> "bkey_roundtrip", arg |-> <<bkey>>,
                       ret |-> <<ij, bkey_encode(curveName, nRefRows, ij[1], ij[2])>>,
                       threw |-> FALSE]
            /\ UNCHANGED <<curveName, level, blevel, isHalf, nKeys, nBKeys, keyBits,
                           bkeyBits, nRefRows, numVars, lblVars>>

Next == Refresh \/ KeyDecode \/ KeyEncode \/ BkeyRoundTrip

Spec == Init /\ [][Next]_vars

\* ------------------------------------------------------------------------
\* The Morton code on inputs of up to 32 bits

\* The variables after new GSfc4qLbl_Morton() or new GSfc4qLbl_Hilbert(), with
\* the arguments r of refresh and c of lblRefresh; res aside.
CurveBuilt(name, r, c) ==
    /\ curveName = name
    /\ level = r.level /\ blevel = r.blevel /\ isHalf = r.isHalf
    /\ nKeys = r.nKeys /\ nBKeys = r.nBKeys /\ keyBits = r.keyBits
    /\ bkeyBits = r.bkeyBits /\ nRefRows = r.nRefRows
    /\ kx_label = FreshLabels
    /\ kx_tr = c.tr
    /\ base = c.base[1]
    /\ sbiID = c.sbiID
    /\ id0 = c.id0
    /\ id0_maxBits = c.id0_maxBits
    /\ sbiX = fromNull
    /\ sbiY = fromNull
    /\ useRadix = "4h"
    /\ out = [op |-> "new", str |-> << >>, threw |-> FALSE]

\* The BigInts below 2^64 with at most n bits set.
RECURSIVE Sparse(_)
Sparse(n) == IF n = 0 THEN { {} }
             ELSE Sparse(n - 1) \cup {S \cup {p} : S \in Sparse(n - 1), p \in Positions}

WordBits == 32

\* The arguments of bkey_encode(x, y): x and y below 2^32, given by their bits.
InitMorton ==
    /\ CurveBuilt("Morton", refresh(Null, Null), GSfc4qLbl(Null, Null, Null))
    /\ \E z \in Sparse(MaxOnes) :
           res = [op |-> "input",
                  arg |-> << {p \in z : p < WordBits}, {p - WordBits : p \in {q \in z : q >= WordBits}} >>,
                  ret |-> Null, threw |-> FALSE]

\* bkey_encode(x, y)
MortonEncode ==
    /\ res.op = "input"
    /\ res' = [op |-> "bkey_encode", arg |-> res.arg,
               ret |-> Morton_bkey_encode_wide(res.arg[1], res.arg[2]), threw |-> FALSE]
    /\ UNCHANGED <<curveName, level, blevel, isHalf, nKeys, nBKeys, keyBits,
                   bkeyBits, nRefRows, numVars, lblVars>>

\* bkey_decode(d) of the key d that bkey_encode returned
MortonDecode ==
    /\ res.op = "bkey_encode"
    /\ res' = [op |-> "bkey_decode", arg |-> << res.ret >>,
               ret |-> Morton_bkey_decode_wide(res.ret), threw |-> FALSE]
    /\ UNCHANGED <<curveName, level, blevel, isHalf, nKeys, nBKeys, keyBits,
                   bkeyBits, nRefRows, numVars, lblVars>>

NextMorton == MortonEncode \/ MortonDecode

SpecMorton == InitMorton /\ [][NextMorton]_vars

\* ------------------------------------------------------------------------
\* The labeled curve: the identifier is set, then rendered

\* The levels of bench01: the multiples of 0.5 from 0.5, and the default.
LblLevels == {Null} \cup {Some(k * HalfLevel) : k \in 1 .. (2 * MaxLblLevel)}

\* The base of the labels: the default (4h), or one that is named.
LblBases == {Null, Some("2"), Some("16h")}

\* The grid identifier: none, or a bigint and its width.
Id0Args ==
    { [id0 |-> Null, maxBits |-> Null] }
        \cup { [id0 |-> Some(v), maxBits |-> Some(MaxId0Bits)] :
                   v \in 0 .. (Pow(2, MaxId0Bits) - 1) }

\* new GSfc4qLbl_Morton(level, base, id0, id0_maxBits), or GSfc4qLbl_Hilbert
InitLbl ==
    \E name \in CurveNames, lv \in LblLevels, b \in LblBases, i \in Id0Args :
        /\ CurveBuilt(name, refresh(Null, lv), GSfc4qLbl(b, i.id0, i.maxBits))
        /\ res = [op |-> "new", arg |-> <<lv, b, i>>, ret |-> Null, threw |-> FALSE]

\* The identifier is set on the object as constructed, except that
\* setBkey_byIJ is also called after setKey; id_toString follows a setter.
\* setKey(key), for every key of the grid and the first one past it.
SetKey ==
    /\ res.op = "new"
    /\ \E key \in 0 .. nKeys :
        \E f \in {setKey(sbiID, keyBits, base, "bigint", key, Null, kx_label)} :
            /\ sbiID' = f.sbi
            /\ kx_label' = f.lbl
            /\ res' = [op |-> "setKey", arg |-> <<key>>, ret |-> Null, threw |-> f.threw]
            /\ UNCHANGED <<curveName, level, blevel, isHalf, nKeys, nBKeys, keyBits,
                           bkeyBits, nRefRows, base, id0, id0_maxBits,
                           sbiX, sbiY, kx_tr, useRadix, out>>

\* setBkey(bkey)
SetBkey ==
    /\ res.op = "new"
    /\ \E bkey \in 0 .. nBKeys :
        \E f \in {setKey(sbiID, bkeyBits, base, "bigint", bkey, Null, kx_label)} :
            /\ sbiID' = f.sbi
            /\ kx_label' = f.lbl
            /\ res' = [op |-> "setBkey", arg |-> <<bkey>>, ret |-> Null, threw |-> f.threw]
            /\ UNCHANGED <<curveName, level, blevel, isHalf, nKeys, nBKeys, keyBits,
                           bkeyBits, nRefRows, base, id0, id0_maxBits,
                           sbiX, sbiY, kx_tr, useRadix, out>>

\* setID_byKey(key)
SetID_byKey ==
    /\ res.op = "new"
    /\ \E key \in 0 .. nKeys :
        \E f \in {setID_byKey(sbiID, keyBits, id0_maxBits, base, key, kx_label)} :
            /\ sbiID' = f.sbi
            /\ kx_label' = f.lbl
            /\ res' = [op |-> "setID_byKey", arg |-> <<key>>, ret |-> Null, threw |-> f.threw]
            /\ UNCHANGED <<curveName, level, blevel, isHalf, nKeys, nBKeys, keyBits,
                           bkeyBits, nRefRows, base, id0, id0_maxBits,
                           sbiX, sbiY, kx_tr, useRadix, out>>

\* setBkey_byIJ(i,j), for every coordinate of the grid and the first row and
\* column on either side of it.
SetBkey_byIJ ==
    /\ res.op \in {"new", "setKey"}
    /\ \E i \in (-1) .. nRefRows, j \in (-1) .. nRefRows :
        \E f \in {setBkey_byIJ(sbiID, curveName, nRefRows, isHalf, keyBits, base,
                              i, j, kx_label)} :
            /\ sbiID' = f.sbi
            /\ kx_label' = f.lbl
            /\ res' = [op |-> "setBkey_byIJ", arg |-> <<i, j>>, ret |-> Null, threw |-> f.threw]
            /\ UNCHANGED <<curveName, level, blevel, isHalf, nKeys, nBKeys, keyBits,
                           bkeyBits, nRefRows, base, id0, id0_maxBits,
                           sbiX, sbiY, kx_tr, useRadix, out>>

\* id_toString(otherbase), with no argument or in base 2; of is the call that
\* set the identifier.
IdToString ==
    /\ res.op \in {"setKey", "setBkey", "setID_byKey", "setBkey_byIJ"}
    /\ \E otherbase \in {Null, Some("2")} :
        \E r \in {id_toString(sbiID, base, otherbase, kx_label, kx_tr)} :
            /\ kx_tr' = r.tr
            /\ res' = [op |-> "id_toString", arg |-> <<otherbase>>, ret |-> r.str,
                       threw |-> r.threw, of |-> res]
            /\ UNCHANGED <<curveName, level, blevel, isHalf, nKeys, nBKeys, keyBits,
                           bkeyBits, nRefRows, lblVars,
                           sbiX, sbiY, kx_label, useRadix, out>>

NextLbl == SetKey \/ SetBkey \/ SetID_byKey \/ SetBkey_byIJ \/ IdToString

SpecLbl == InitLbl /\ [][NextLbl]_vars

\* One labeled curve of the default base and no id0, on which refresh(level)
\* and setKey(key) are called in any order.
InitRelabel ==
    /\ InitLbl
    /\ res.arg[2] = Null
    /\ res.arg[3].id0 = Null

\* refresh(level) on the labeled curve
RefreshLbl ==
    \E arg \in LblLevels :
        \E r \in {refresh(Some(level), arg)} :
            /\ ~r.threw
            /\ level' = r.level
            /\ blevel' = r.blevel
            /\ isHalf' = r.isHalf
            /\ nKeys' = r.nKeys
            /\ nBKeys' = r.nBKeys
            /\ keyBits' = r.keyBits
            /\ bkeyBits' = r.bkeyBits
            /\ nRefRows' = r.nRefRows
            /\ res' = [op |-> "refresh", arg |-> arg, ret |-> Null, threw |-> FALSE]
            /\ UNCHANGED <<curveName, numVars, lblVars>>

\* setKey(key) at any time, for every key of the grid
SetKeyAgain ==
    \E key \in 0 .. (nKeys - 1) :
        \E f \in {setKey(sbiID, keyBits, base, "bigint", key, Null, kx_label)} :
            /\ sbiID' = f.sbi
            /\ kx_label' = f.lbl
            /\ res' = [op |-> "setKey", arg |-> <<key>>, ret |-> Null, threw |-> f.threw]
            /\ UNCHANGED <<curveName, level, blevel, isHalf, nKeys, nBKeys, keyBits,
                           bkeyBits, nRefRows, base, id0, id0_maxBits,
                           sbiX, sbiY, kx_tr, useRadix, out>>

NextRelabel == RefreshLbl \/ SetKeyAgain

SpecRelabel == InitRelabel /\ [][NextRelabel]_vars

\* ------------------------------------------------------------------------
\* The numerals: one SizedBigInt is rendered, a second one parses the rendering

RadixArgs == BaseLabels \cup DOMAIN kx_isAlias

\* No curve is constructed here: the variables of the curve hold idle values.
NoCurve ==
    /\ curveName = "Morton"
    /\ LET r == refresh(Null, Null)
       IN  /\ level = r.level /\ blevel = r.blevel /\ isHalf = r.isHalf
           /\ nKeys = r.nKeys /\ nBKeys = r.nBKeys /\ keyBits = r.keyBits
           /\ bkeyBits = r.bkeyBits /\ nRefRows = r.nRefRows
    /\ res = [op |-> "new", arg |-> Null, ret |-> Null, threw |-> FALSE]
    /\ base = "4h"
    /\ sbiID = fromNull
    /\ id0 = Null
    /\ id0_maxBits = Null

\* x = new SizedBigInt(val, null, bits) for a value of at most bits bits,
\* y = new SizedBigInt(), and the base label the caller works in.
InitNum ==
    /\ \E r \in RadixArgs : useRadix = r
    /\ \E bits \in 1 .. MaxBits : \E val \in 0 .. (Pow(2, bits) - 1) :
           sbiX = fromInt("bigint", val, Some(bits), TRUE).sbi
    /\ sbiY = fromNull
    /\ RegistryBuilt
    /\ out = [op |-> "new", str |-> << >>, threw |-> FALSE]
    /\ NoCurve

\* x.toString(radix)
NumToString ==
    LET r == toString(sbiX, useRadix, kx_label, kx_tr)
    IN  /\ kx_tr' = r.tr
        /\ out' = [op |-> "toString", str |-> r.str, threw |-> r.threw]
        /\ UNCHANGED <<sbiX, sbiY, kx_label, useRadix, curveVars, lblVars>>

\* y.fromString(s, radix) for the string s that x.toString(radix) returned
NumFromString ==
    /\ out.op = "toString"
    /\ ~out.threw
    /\ LET f == fromString(sbiY, out.str, useRadix, Null, TRUE, kx_label)
       IN  /\ sbiY' = f.sbi
           /\ kx_label' = f.lbl
           /\ out' = [op |-> "fromString", str |-> out.str, threw |-> f.threw]
    /\ UNCHANGED <<sbiX, kx_tr, useRadix, curveVars, lblVars>>

NextNum == NumToString \/ NumFromString

SpecNum == InitNum /\ [][NextNum]_vars

\* ------------------------------------------------------------------------
\* The input methods of one SizedBigInt, called in any order

StringsUpTo(A, n) == UNION {[1 .. k -> A] : k \in 0 .. n}

\* maxBits: omitted, zero, positive (enforce the length) or negative (a
\* maximum only).
MaxBitsArgs == {Null} \cup {Some(m) : m \in (-MaxLen) .. MaxLen}

\* onErr_cutLSD: omitted, true or false.
FlagArgs == {Null, Some(TRUE), Some(FALSE)}

\* Characters of the strings fromString is called with: binary digits, a
\* hexadecimal digit that is no digit of base 4, and a short-code symbol of 4h.
StringChars == {"0", "1", "a", "G"}

FromStringRadix == {"2", "4h", "4", "16h", "16"}

\* x = new SizedBigInt()
InitSbi ==
    /\ sbiX = fromNull
    /\ sbiY = fromNull
    /\ useRadix = "2"
    /\ RegistryBuilt
    /\ out = [op |-> "new", kind |-> "undefined", v |-> Null, radix |-> Null,
              maxBits |-> Null, flag |-> Null, threw |-> FALSE]
    /\ NoCurve

\* x.fromInt(val, maxBits, onErr_cutLSD)
SbiFromInt ==
    \E val \in 0 .. (Pow(2, MaxValBits) - 1), mb \in MaxBitsArgs, flag \in FlagArgs :
        \E f \in {fromInt("bigint", val, mb, Default(flag, TRUE))} :
            /\ sbiX' = f.sbi
            /\ out' = [op |-> "fromInt", kind |-> "bigint", v |-> val, radix |-> Null,
                       maxBits |-> mb, flag |-> flag, threw |-> f.threw]
            /\ UNCHANGED <<sbiY, kx_label, kx_tr, useRadix, curveVars, lblVars>>

\* x.fromBitString(strval, maxBits, onErr_cutLSD)
SbiFromBitString ==
    \E strval \in StringsUpTo({"0", "1"}, MaxLen), mb \in MaxBitsArgs, flag \in FlagArgs :
        \E f \in {fromBitString(sbiX, strval, mb, Default(flag, TRUE))} :
            /\ sbiX' = f.sbi
            /\ out' = [op |-> "fromBitString", kind |-> "string", v |-> strval,
                       radix |-> Null, maxBits |-> mb, flag |-> flag, threw |-> f.threw]
            /\ UNCHANGED <<sbiY, kx_label, kx_tr, useRadix, curveVars, lblVars>>

\* x.fromAny(val, radix, maxBits, onErr_cutLSD) for a bigint, for a string of
\* binary digits with radix 2, and for null.
SbiFromAny ==
    \E kind \in {"bigint", "string", "null"}, mb \in MaxBitsArgs, flag \in FlagArgs :
        \E val \in IF kind = "bigint" THEN 0 .. (Pow(2, MaxValBits) - 1)
                    ELSE IF kind = "string" THEN StringsUpTo({"0", "1"}, MaxLen)
                    ELSE {Null} :
            \E radix \in {IF kind = "string" THEN Some("2") ELSE Null} :
            \E f \in {fromAny(sbiX, kind, val, radix, mb, flag, kx_label)} :
                /\ sbiX' = f.sbi
                /\ kx_label' = f.lbl
                /\ out' = [op |-> "fromAny", kind |-> kind, v |-> val, radix |-> radix,
                           maxBits |-> mb, flag |-> flag, threw |-> f.threw]
                /\ UNCHANGED <<sbiY, kx_tr, useRadix, curveVars, lblVars>>

\* x.fromString(strval, radix)
SbiFromString ==
    \E strval \in StringsUpTo(StringChars, MaxLen), radix \in FromStringRadix :
        LET f == fromString(sbiX, strval, radix, Null, TRUE, kx_label)
        IN  /\ sbiX' = f.sbi
            /\ kx_label' = f.lbl
            /\ out' = [op |-> "fromString", kind |-> "string", v |-> strval,
                       radix |-> Some(radix), maxBits |-> Null, flag |-> Null,
                       threw |-> f.threw]
            /\ UNCHANGED <<sbiY, kx_tr, useRadix, curveVars, lblVars>>

NextSbi == SbiFromInt \/ SbiFromBitString \/ SbiFromAny

SpecSbi == InitSbi /\ [][NextSbi]_vars

\* fromString alone, on one SizedBigInt, with strings of every kind.
NextParse == SbiFromString

SpecParse == InitSbi /\ [][NextParse]_vars

\* ------------------------------------------------------------------------
\* Claims on the curve

Grid == (0 .. (nRefRows - 1)) \X (0 .. (nRefRows - 1))

\* C1: for both strategies and every configured blind level, bkey_encode of
\* the coordinate that bkey_decode returned for a bkey in [0, nBKeys) is that
\* bkey again.
C1_RoundTrip ==
    res.op = "bkey_roundtrip" => res.ret[2] = res.arg[1]

C1_Witness ==
    /\ res.op = "bkey_roundtrip"
    /\ curveName = "Hilbert"
    /\ nRefRows = 4
    /\ res.arg = <<13>>
    /\ res.ret[2] = 13

\* C2: for a fixed level and strategy, bkey_decode restricted to [0, nBKeys)
\* is a bijection onto the grid: every decoded coordinate is in range, every
\* grid coordinate is produced (the image is the grid), and no two bkeys decode
\* to the same one (the image has as many elements as there are bkeys).
C2_Bijection ==
    res.op = "bkey_roundtrip" =>
        LET keys  == 0 .. (nBKeys - 1)
            image == {bkey_decode(curveName, nRefRows, b) : b \in keys}
        IN  /\ res.ret[1] \in image
            /\ image = Grid
            /\ Cardinality(image) = Cardinality(keys)

C2_Witness ==
    /\ res.op = "bkey_roundtrip"
    /\ curveName = "Hilbert"
    /\ nBKeys = 16
    /\ res.arg = <<7>>
    /\ res.ret[1] = <<1, 2>>

\* C3: key_decode(key) for key in [0, nKeys) returns [bkey_decode(key), null]
\* at an integer level and [bkey_decode(2*key), bkey_decode(2*key+1)] at a half
\* level, the second element being non-null exactly when isHalf; Morton at
\* level 0.5 gives key 0 -> ((0,0),(1,0)) and key 1 -> ((0,1),(1,1)).
C3_KeyDecode ==
    (res.op = "key_decode" /\ res.arg[1] < nKeys) =>
        LET key == res.arg[1]
            dec(b) == bkey_decode(curveName, nRefRows, b)
        IN  /\ ~isHalf => res.ret = << dec(key), Null >>
            /\ isHalf => res.ret = << dec(key + key), dec(key + key + 1) >>
            /\ (res.ret[2] # Null) <=> isHalf
            /\ (curveName = "Morton" /\ level = HalfLevel /\ nKeys = 2) =>
                   /\ key = 0 => res.ret = << <<0, 0>>, <<1, 0>> >>
                   /\ key = 1 => res.ret = << <<0, 1>>, <<1, 1>> >>

C3_Witness ==
    /\ res.op = "key_decode"
    /\ curveName = "Morton"
    /\ level = HalfLevel
    /\ nKeys = 2
    /\ res.arg = <<1>>
    /\ res.ret = << <<0, 1>>, <<1, 1>> >>

\* C4: key_encode(i,j) for 0 <= i,j < nRefRows returns [bkey_encode(i,j), null]
\* at an integer level and, at a half level, [b1, b1+1] with b1 even and
\* b1 = 2*floor(bkey_encode(i,j)/2), so that (i,j) is one of the two
\* coordinates of key_decode(b1/2).
C4_KeyEncode ==
    (res.op = "key_encode" /\ res.arg[1] < nRefRows /\ res.arg[2] < nRefRows) =>
        LET i == res.arg[1]
            j == res.arg[2]
            b == bkey_encode(curveName, nRefRows, i, j)
        IN  /\ ~isHalf => res.ret = << Some(b), Null >>
            /\ isHalf =>
                 /\ res.ret[1] # Null /\ res.ret[2] # Null
                 /\ LET b1 == res.ret[1][1]
                        b2 == res.ret[2][1]
                        cell == key_decode(curveName, nRefRows, isHalf, b1 \div 2)
                    IN  /\ b1 % 2 = 0
                        /\ b2 = b1 + 1
                        /\ b1 = 2 * (b \div 2)
                        /\ <<i, j>> \in {cell[1], cell[2]}

\* (i,j) decodes from the odd member of the pair.
C4_Witness ==
    /\ res.op = "key_encode"
    /\ isHalf
    /\ curveName = "Hilbert"
    /\ nRefRows = 4
    /\ res.arg = <<1, 2>>
    /\ res.ret = << Some(6), Some(7) >>

ValidLevel(arg) == arg # Null /\ arg[1] >= 0 /\ arg[1] % HalfLevel = 0

\* C8: for every level that is a non-negative multiple of 0.5 (0 included),
\* after refresh(level) the object holds that level with blevel = ceil(level),
\* isHalf = (blevel # level), nBKeys = 4^blevel, nKeys = nBKeys/2 at a half level
\* and nBKeys otherwise, keyBits = bitlength(nKeys-1), bkeyBits =
\* bitlength(nBKeys-1) and nRefRows = 2^blevel, whatever was configured before.
C8_Refresh ==
    (res.op = "refresh" /\ ValidLevel(res.arg)) =>
        LET lv == res.arg[1]
        IN  /\ ~res.threw
            /\ level = lv
            /\ blevel = MathCeil(lv)
            /\ isHalf = (blevel * Tenths # lv)
            /\ nBKeys = Pow(4, blevel)
            /\ nKeys = (IF isHalf THEN nBKeys \div 2 ELSE nBKeys)
            /\ keyBits = BinLength(nKeys - 1)
            /\ bkeyBits = BinLength(nBKeys - 1)
            /\ nRefRows = Pow(2, blevel)

\* C9: in every state reachable by any sequence of refresh calls, returning or
\* throwing, nRefRows^2 = nBKeys and keyBits = bkeyBits - (isHalf ? 1 : 0).
C9_GridInvariant ==
    /\ nRefRows * nRefRows = nBKeys
    /\ keyBits = bkeyBits - (IF isHalf THEN 1 ELSE 0)

\* C10: refresh(level), or the constructor, called with a level that is
\* negative or not a multiple of 0.5 fails with an error instead of
\* configuring a grid.
C10_InvalidLevel ==
    (res.op \in {"new", "refresh"} /\ res.arg # Null /\ ~ValidLevel(res.arg)) =>
        res.threw

\* C11: for both strategies and every level, key_decode(key) with key >= nKeys
\* and key_encode(i,j) with i >= nRefRows or j >= nRefRows fail with an error;
\* they return no coordinate or key.
C11_OutOfRange ==
    (\/ res.op = "key_decode" /\ res.arg[1] >= nKeys
     \/ res.op = "key_encode" /\ (res.arg[1] >= nRefRows \/ res.arg[2] >= nRefRows))
        => res.threw

\* The order of the Hilbert curve on the grid of 2 rows.
HilbertLevel1 == << <<0, 0>>, <<0, 1>>, <<1, 1>>, <<1, 0>> >>

\* C13: Hilbert at level 1 (nRefRows = 2) decodes key 0 to (0,0), key 1 to
\* (0,1), key 2 to (1,1) and key 3 to (1,0).
C13_HilbertLevel1 ==
    (curveName = "Hilbert" /\ level = Tenths /\ nRefRows = 2) =>
        /\ res.op = "bkey_roundtrip" => res.ret[1] = HilbertLevel1[res.arg[1] + 1]
        /\ (res.op = "key_decode" /\ res.arg[1] < nKeys) =>
               res.ret = << HilbertLevel1[res.arg[1] + 1], Null >>

C13_Witness ==
    /\ curveName = "Hilbert"
    /\ level = Tenths
    /\ nRefRows = 2
    /\ res.op = "key_decode"
    /\ res.arg = <<3>>
    /\ res.ret = << <<1, 0>>, Null >>

\* The coordinate of the cell of the next coarser level that holds ij.
Halved(ij) == <<ij[1] \div 2, ij[2] \div 2>>

\* C26: cells nest across levels for both strategies: for every integer level
\* L >= 1, every bkey b in [0, 4^L) and every d in 0..3, the coordinate decoded
\* at level L+1 from 4*b+d, halved, is the coordinate decoded at level L from
\* b; the four children of a cell are the four blind cells inside it.
C26_Nesting ==
    (res.op = "bkey_roundtrip" /\ level % Tenths = 0 /\ level >= 2 * Tenths) =>
        LET b        == res.arg[1] \div 4
            parent   == bkey_decode(curveName, nRefRows \div 2, b)
            children == {bkey_decode(curveName, nRefRows, 4 * b + d) : d \in 0 .. 3}
        IN  /\ Halved(res.ret[1]) = parent
            /\ children = {<<2 * parent[1] + di, 2 * parent[2] + dj>> :
                               di \in 0 .. 1, dj \in 0 .. 1}

\* Hilbert at level 2: the cell 7 = 4*1+3 is inside the cell 1 of level 1.
C26_Witness ==
    /\ res.op = "bkey_roundtrip"
    /\ curveName = "Hilbert"
    /\ level = 2 * Tenths
    /\ res.arg = <<7>>
    /\ res.ret[1] = <<1, 2>>
    /\ bkey_decode("Hilbert", 2, 1) = <<0, 1>>

Manhattan(a, b) == Abs(a[1] - b[1]) + Abs(a[2] - b[2])

\* C27: at every half level and for both strategies the two blind cells of
\* key_decode(key), key in [0, nKeys), are edge-adjacent: they differ by 1 in
\* one axis; for Morton the pair always differs in i only.
C27_HalfCellAdjacent ==
    (res.op = "key_decode" /\ isHalf /\ res.arg[1] < nKeys) =>
        /\ res.ret[2] # Null
        /\ Manhattan(res.ret[1], res.ret[2]) = 1
        /\ curveName = "Morton" =>
               res.ret[2] = <<res.ret[1][1] + 1, res.ret[1][2]>>

\* A Hilbert cell of level 1.5 that is one column and two rows, and a Morton
\* cell of the same key would be two columns and one row.
C27_Witness ==
    /\ res.op = "key_decode"
    /\ curveName = "Hilbert"
    /\ level = Tenths + HalfLevel
    /\ res.arg = <<2>>
    /\ res.ret[1][1] = res.ret[2][1]
    /\ Abs(res.ret[1][2] - res.ret[2][2]) = 1
    /\ LET m == key_decode("Morton", nRefRows, isHalf, 2)
       IN  m[2][1] = m[1][1] + 1

\* C28: the Hilbert curve is continuous at every level: for every bkey in
\* [0, nBKeys-1), bkey_decode(bkey) and bkey_decode(bkey+1) are at Manhattan
\* distance 1.
C28_HilbertContinuous ==
    (res.op = "bkey_roundtrip" /\ curveName = "Hilbert"
        /\ res.arg[1] < nBKeys - 1) =>
        Manhattan(res.ret[1], bkey_decode(curveName, nRefRows, res.arg[1] + 1)) = 1

\* The step from the first quadrant of the 8x8 grid to the second.
C28_Witness ==
    /\ res.op = "bkey_roundtrip"
    /\ curveName = "Hilbert"
    /\ nRefRows = 8
    /\ res.arg = <<15>>
    /\ Halved(Halved(res.ret[1])) = <<0, 0>>
    /\ Halved(Halved(bkey_decode("Hilbert", 8, 16))) = <<0, 1>>

\* C12: Morton bkey_encode(x,y), for every x and y of up to 32 bits, is the
\* interleaving in which bit k of x is bit 2k of the key and bit k of y is bit
\* 2k+1 (all other bits 0), and bkey_decode extracts the even bits as x and the
\* odd bits as y; so key 0 decodes to (0,0), 1 to (1,0), 2 to (0,1), 3 to (1,1).
C12_MortonInterleave ==
    /\ res.op = "bkey_encode" =>
           res.ret = {k + k : k \in res.arg[1]} \cup {k + k + 1 : k \in res.arg[2]}
    /\ res.op = "bkey_decode" =>
           LET d == res.arg[1]
           IN  /\ res.ret = << {k \in 0 .. (WordBits - 1) : (k + k) \in d},
                               {k \in 0 .. (WordBits - 1) : (k + k + 1) \in d} >>
               /\ d = {} => res.ret = << {}, {} >>
               /\ d = {0} => res.ret = << {0}, {} >>
               /\ d = {1} => res.ret = << {}, {0} >>
               /\ d = {0, 1} => res.ret = << {0}, {0} >>

\* x = 2^31 and y = 1: the key has the bits 62 and 1.
C12_Witness ==
    /\ res.op = "bkey_decode"
    /\ res.arg = << {1, 62} >>
    /\ res.ret = << {31}, {0} >>

\* ------------------------------------------------------------------------
\* Claims on the numerals

HierarchicalBases == {"4h", "8h", "16h"}

\* The SizedBigInt of the first n bits of this.
Leading(this, n) == [val |-> Some(this.val[1] \div Pow(2, this.bits - n)), bits |-> n]

Rendered(this) == toString(this, useRadix, kx_label, kx_tr).str

\* C5 as stated: for every hierarchical base (4h, 8h, 16h), any bit-string b of
\* length L >= 1 and any non-empty extension of it, the rendering of b is a
\* character-prefix of the rendering of the extension.
C5_PrefixAnyLength ==
    (out.op = "toString" /\ useRadix \in HierarchicalBases) =>
        \A n \in 1 .. (sbiX.bits - 1) : IsPrefix(Rendered(Leading(sbiX, n)), out.str)

\* C5 as amended: for every hierarchical base and any bit-string b whose length
\* is a positive multiple of bitsPerDigit, the rendering of b is a
\* character-prefix of the rendering of every non-empty extension of b.
C5_PrefixFullDigits ==
    (out.op = "toString" /\ useRadix \in HierarchicalBases) =>
        \A n \in 1 .. (sbiX.bits - 1) :
            n % kx_bitsPerDigit(useRadix) = 0 =>
                IsPrefix(Rendered(Leading(sbiX, n)), out.str)

\* b = 1010 renders a, its extension 101001 renders aM.
C5_Witness ==
    /\ out.op = "toString"
    /\ useRadix = "16h"
    /\ sbiX = [val |-> Some(41), bits |-> 6]
    /\ out.str = <<"a", "M">>
    /\ Rendered(Leading(sbiX, 4)) = <<"a">>

\* C6: for every registered base label and every valid SizedInteger x,
\* fromString(x.toString(base), base) reconstructs x: same value, same bits.
C6_BaseRoundTrip ==
    out.op = "fromString" => (~out.threw /\ sbiY = sbiX)

\* The position of c in the alphabet, from 1; 0 for a character outside it.
AlphabetIndex(label, c) ==
    IF \E m \in DOMAIN kx_alphabet(label) : kx_alphabet(label)[m] = c
    THEN CHOOSE m \in DOMAIN kx_alphabet(label) : kx_alphabet(label)[m] = c
    ELSE 0

\* C7: toString(base) for a hierarchical base (4h, 8h, 16h) returns
\* ceil(bits/bitsPerDigit) characters: each full chunk of bitsPerDigit bits,
\* from the most significant end, maps to the alphabet symbol whose index is
\* the chunk's value, and a final partial chunk maps to one reserved symbol
\* (index >= base) that no other (length, value) pair of a partial chunk maps to.
C7_HierarchicalDigits ==
    (out.op = "toString" /\ useRadix \in HierarchicalBases) =>
        LET bpd  == kx_bitsPerDigit(useRadix)
            b    == toBitString(sbiX)
            full == sbiX.bits \div bpd
            rest == sbiX.bits % bpd
        IN  /\ ~out.threw
            /\ Len(out.str) = full + (IF rest = 0 THEN 0 ELSE 1)
            /\ \A k \in 1 .. Min(full, Len(out.str)) :
                   AlphabetIndex(useRadix, out.str[k])
                       = ParseBin(SubSeq(b, (k - 1) * bpd + 1, k * bpd)) + 1
            /\ (rest # 0 /\ Len(out.str) = full + 1) =>
                   /\ AlphabetIndex(useRadix, out.str[full + 1]) > kx_base(useRadix)
                   /\ \A n \in 1 .. (bpd - 1) : \A v \in 0 .. (Pow(2, n) - 1) :
                          <<n, v>> # <<rest, sbiX.val[1] % Pow(2, rest)>> =>
                              Rendered([val |-> Some(v), bits |-> n])
                                  # << out.str[full + 1] >>

\* C17: toString(base) for a non-hierarchical base (4js, 8js, 16js, 32hex,
\* 32nvu, 32rfc, 32ghs, 64url) renders only when bits is a multiple of
\* bitsPerDigit: for any other width the call is rejected, and every string it
\* returns consists only of symbols of the base's alphabet.
C17_NonHierarchicalWidth ==
    (out.op = "toString" /\ ~kx_isHierar(baseLabel(useRadix))) =>
        /\ sbiX.bits % kx_bitsPerDigit(baseLabel(useRadix)) # 0 => out.threw
        /\ ~out.threw =>
               \A k \in DOMAIN out.str : AlphabetIndex(baseLabel(useRadix), out.str[k]) > 0

\* ------------------------------------------------------------------------
\* Claims on the input methods

\* The width of the natural representation of the value of the last call.
NaturalWidth ==
    IF out.kind = "bigint" THEN BinLength(out.v)
    ELSE IF out.kind = "string" THEN Len(out.v) ELSE 0

\* The last call gave a maximum width and a value wider than it.
Wider == ~Falsy(out.maxBits) /\ NaturalWidth > Abs(out.maxBits[1])

\* C14: when a SizedBigInt is built (fromAny, fromInt, fromBitString) with a
\* maximum bit-width and a value whose natural representation is wider, and
\* the caller has not passed the flag that permits truncation, the call fails
\* and stores no truncated value.
C14_NoSilentTruncation ==
    (out.op \in {"fromInt", "fromBitString", "fromAny"} /\ Wider
        /\ out.flag # Some(TRUE)) => out.threw

\* C15: in every state reachable by fromInt, fromBitString and fromAny calls
\* (non-negative inputs, any maxBits and truncation flag, calls that throw
\* included), a non-null instance has 0 <= val < 2^bits, so toBitString() has
\* exactly bits characters.
C15_ValueFitsBits ==
    sbiX.val # Null =>
        /\ 0 <= sbiX.val[1]
        /\ sbiX.val[1] < Pow(2, sbiX.bits)
        /\ Len(toBitString(sbiX)) = sbiX.bits

\* The number the last call was given.
NaturalValue == IF out.kind = "bigint" THEN out.v ELSE ParseBin(out.v)

\* C25: fromInt and fromBitString follow the maxBits modes for an input of
\* natural bit-length n: maxBits > 0 forces bits = maxBits, padding on the
\* most-significant side when n < maxBits and, when n > maxBits and the
\* truncation is permitted, keeping the maxBits most-significant bits; maxBits
\* 0 or null keeps bits = n; maxBits < 0 gives bits = min(n, |maxBits|); fromInt
\* and fromBitString agree on the same bits.
C25_MaxBitsModes ==
    (out.op \in {"fromInt", "fromBitString"} /\ ~out.threw /\ NaturalWidth >= 1) =>
        LET n   == NaturalWidth
            v   == NaturalValue
            m   == IF Falsy(out.maxBits) THEN 0 ELSE out.maxBits[1]
            cut == Default(out.flag, TRUE)
            kept == IF n > Abs(m) THEN v \div Pow(2, n - Abs(m)) ELSE v
            str == IF out.kind = "bigint" THEN Bin(v) ELSE out.v
        IN  /\ m = 0 => sbiX = [val |-> Some(v), bits |-> n]
            /\ m > 0 => sbiX = [val |-> Some(kept), bits |-> m]
            /\ m > 0 => Len(toBitString(sbiX)) = m
            /\ m < 0 => sbiX = [val |-> Some(kept), bits |-> Min(n, -m)]
            /\ str = Bin(v) =>
                   /\ fromInt("bigint", v, out.maxBits, cut).sbi = sbiX
                   /\ fromBitString(fromNull, str, out.maxBits, cut).sbi = sbiX

\* fromInt(5n, 2): the two most-significant bits of 101.
C25_Witness ==
    /\ out.op = "fromInt"
    /\ out.v = 5
    /\ out.maxBits = Some(2)
    /\ sbiX = [val |-> Some(2), bits |-> 2]
    /\ fromBitString(fromNull, <<"1", "0", "1">>, Some(2), TRUE).sbi = sbiX

\* The string is one that the base can render: symbols of the alphabet, a
\* short-code symbol (index above the base) only at the end.
ValidFor(label, str) ==
    \A k \in DOMAIN str :
        LET n == AlphabetIndex(label, str[k])
        IN  /\ n > 0
            /\ n > kx_base(label) => (kx_isHierar(label) /\ k = Len(str))

\* C16: fromString(str, base) rejects with an error every string that
\* contains a symbol outside the base's alphabet or that does not match the
\* base's structural pattern; it returns no value and no null SizedBigInt.
C16_RejectsInvalid ==
    (out.op = "fromString" /\ out.v # << >>
        /\ ~ValidFor(baseLabel(out.radix[1]), out.v)) => out.threw

\* ------------------------------------------------------------------------
\* Claims on the labeled curve

C19_PrefixedById0 ==
    (res.op = "setID_byKey" /\ id0 # Null /\ res.arg[1] < nKeys) =>
        /\ ~res.threw
        /\ sbiID.bits = id0_maxBits[1] + keyBits
        /\ sbiID.val = Some(id0[1] * Pow(2, keyBits) + res.arg[1])

\* C20: setBkey_byIJ(i,j) is a no-op whenever either coordinate is outside
\* [0, nRefRows), above the range or below it: sbiID and all grid constants
\* are unchanged and no error is raised.
C20_NoOpOutsideGrid ==
    [][(res'.op = "setBkey_byIJ"
          /\ (res'.arg[1] \notin 0 .. (nRefRows - 1) \/ res'.arg[2] \notin 0 .. (nRefRows - 1)))
        => (/\ sbiID' = sbiID
            /\ ~res'.threw
            /\ UNCHANGED <<level, blevel, isHalf, nKeys, nBKeys, keyBits, bkeyBits,
                           nRefRows, base, id0, id0_maxBits>>)]_vars

\* The label in base 4h that a second curve, at the integer level l (in
\* tenths), gives to its key k: setKey(k).id_toString('4h').
LabelAt(l, k) ==
    LET r == refresh(Null, Some(l))
        f == setKey(fromNull, r.keyBits, "4h", "bigint", k, Null, kx_label)
    IN  id_toString(f.sbi, "4h", Some("4h"), kx_label, kx_tr).str

\* C21: labels are hierarchical in base 4h: for every integer level L, every
\* key k in [0, 4^L) and every finer level L' in {L+0.5, L+1}, the label of k
\* at level L is a character-prefix of the label at level L' of exactly those
\* keys k' with k' >> (keyBits' - keyBits) = k.
C21_HierarchicalLabels ==
    (res.op = "id_toString" /\ res.of.op = "setKey" /\ res.of.arg[1] < nKeys
        /\ Default(res.arg[1], base) = "4h") =>
        \A l \in {level - HalfLevel, level - Tenths} :
            (l >= Tenths /\ l % Tenths = 0) =>
                LET bits == refresh(Null, Some(l)).keyBits
                IN  \A k \in 0 .. (Pow(4, l \div Tenths) - 1) :
                        IsPrefix(LabelAt(l, k), res.ret)
                            <=> (res.of.arg[1] \div Pow(2, keyBits - bits) = k)

\* The key 23 (in base 4) of level 2, inside the cell 2 of level 1.
C21_Witness ==
    /\ res.op = "id_toString"
    /\ res.of.op = "setKey"
    /\ res.of.arg = <<11>>
    /\ level = 2 * Tenths
    /\ base = "4h"
    /\ res.arg = << Null >>
    /\ res.ret = <<"2", "3">>
    /\ LabelAt(Tenths, 2) = <<"2">>

\* ------------------------------------------------------------------------
\* The registry shared by the curves and the numbers

\* The bases the labeled curves are constructed with: the default (4h) and 16h.
RegBases == {Null, Some("16h")}

\* The bases the number is rendered in.
RegRadix == {"4h", "16"}

\* Before the first curve: the catalogue is built, no table is, and x is a
\* zero of at most MaxLen bits.
InitReg ==
    /\ InitNum
    /\ useRadix \in RegRadix
    /\ sbiX.bits <= MaxLen
    /\ sbiX.val = Some(0)

\* c = new GSfc4qLbl_Morton(level, base) or new GSfc4qLbl_Hilbert(level, base):
\* one more curve instance, which the curve variables then hold.
NewCurve ==
    \E name \in CurveNames, b \in RegBases :
        \E r \in {refresh(Null, Null)},
           c \in {lblRefresh([base |-> Null, id0 |-> Null, id0_maxBits |-> Null,
                              sbiID |-> fromNull], b, Null, Null, kx_label, kx_tr)} :
            /\ \A l \in BaseLabels : c.tr.builds[l] <= MaxBuilds
            /\ curveName' = name
            /\ level' = r.level /\ blevel' = r.blevel /\ isHalf' = r.isHalf
            /\ nKeys' = r.nKeys /\ nBKeys' = r.nBKeys /\ keyBits' = r.keyBits
            /\ bkeyBits' = r.bkeyBits /\ nRefRows' = r.nRefRows
            /\ kx_tr' = c.tr
            /\ base' = c.base[1]
            /\ sbiID' = c.sbiID
            /\ id0' = c.id0
            /\ id0_maxBits' = c.id0_maxBits
            /\ res' = [op |-> "GSfc4qLbl", arg |-> Null, ret |-> Null, threw |-> FALSE]
            /\ UNCHANGED <<sbiX, sbiY, kx_label, useRadix, out>>

\* c.lblRefresh(base) on the curve constructed last.
LblRefresh ==
    \E b \in RegBases :
        \E c \in {lblRefresh([base |-> Some(base), id0 |-> id0,
                              id0_maxBits |-> id0_maxBits, sbiID |-> sbiID],
                             b, Null, Null, kx_label, kx_tr)} :
            /\ res.op \in {"GSfc4qLbl", "lblRefresh"}
            /\ \A l \in BaseLabels : c.tr.builds[l] <= MaxBuilds
            /\ kx_tr' = c.tr
            /\ base' = c.base[1]
            /\ sbiID' = c.sbiID
            /\ id0' = c.id0
            /\ id0_maxBits' = c.id0_maxBits
            /\ res' = [op |-> "lblRefresh", arg |-> Null, ret |-> Null, threw |-> FALSE]
            /\ UNCHANGED <<curveName, level, blevel, isHalf, nKeys, nBKeys, keyBits,
                           bkeyBits, nRefRows, sbiX, sbiY, kx_label, useRadix, out>>

NextReg == NewCurve \/ LblRefresh \/ NumToString \/ NumFromString

SpecReg == InitReg /\ [][NextReg]_vars

\* ------------------------------------------------------------------------
\* Claims on the registry and its translation tables

\* C22: once the catalogue is built no operation changes a field of an entry:
\* each entry's label stays the key it is registered under, and toString(radix)
\* of the same number returns what it returns with the catalogue as built.
C22_RegistryReadOnly ==
    /\ kx_label = FreshLabels
    /\ (out.op = "toString" /\ ~out.threw) =>
           out.str = toString(sbiX, useRadix, FreshLabels, NoTables).str

\* C23: the translation tables of a base label are built at most once: after
\* the first build every use of the base only reads kx_tr.
C23_BuiltOnce ==
    \A l \in BaseLabels : kx_tr.builds[l] <= 1

\* The tables one call of kx_trConfig builds for the entry l of the catalogue.
SequentialBuild(l) == kx_trConfig(l, FreshLabels, NoTables)

\* The strings of n binary digits.
Chunks(n) == {s \in StringsUpTo({"0", "1"}, n) : Len(s) = n}

\* C24: however many callers have run kx_trConfig for a base, in whatever
\* order with the other calls, its two tables are those of one build, and a
\* table that the presence guard finds has an entry for every digit.
C24_IdempotentBuild ==
    \A l \in BaseLabels :
        kx_tr.from2[l] # Null =>
            LET once == SequentialBuild(l)
            IN  /\ kx_tr.from2[l] = once.from2[l]
                /\ kx_tr.to2[l] = once.to2[l]
                /\ Chunks(kx_bitsPerDigit(l)) \subseteq DOMAIN kx_tr.from2[l][1]

\* The table of 4h was built by two callers, and x was rendered from it.
C24_Witness ==
    /\ kx_tr.builds["4h"] >= 2
    /\ out.op = "toString"
    /\ useRadix = "4h"
    /\ kx_label = FreshLabels
    /\ out.str # << >>

\* The characters of str mapped through the table t and concatenated.
RECURSIVE MappedBack(_, _)
MappedBack(str, t) ==
    IF str = << >> THEN << >>
    ELSE t.map[Head(str)] \o MappedBack(Tail(str), t)

\* C29: with the registry as built, toString(radix) is injective for the
\* hierarchical bases 4h, 8h and 16h: no other pair (val, bits), bits >= 1,
\* renders the string that x renders, and the characters of the string mapped
\* through the base-to-2 table and concatenated are toBitString().
C29_InjectiveRendering ==
    (out.op = "toString" /\ kx_label = FreshLabels
        /\ useRadix \in HierarchicalBases) =>
        /\ ~out.threw
        /\ \A bits \in 1 .. MaxBits : \A val \in 0 .. (Pow(2, bits) - 1) :
               LET y == [val |-> Some(val), bits |-> bits]
               IN  y # sbiX => toString(y, useRadix, kx_label, kx_tr).str # out.str
        /\ kx_tr.to2[useRadix] # Null
        /\ \A k \in DOMAIN out.str : out.str[k] \in DOMAIN kx_tr.to2[useRadix][1].map
        /\ MappedBack(out.str, kx_tr.to2[useRadix][1]) = toBitString(sbiX)

\* 001 renders 0Q in base 4h; 00 renders 0, a proper prefix of it.
C29_Witness ==
    /\ out.op = "toString"
    /\ kx_label = FreshLabels
    /\ useRadix = "4h"
    /\ sbiX = [val |-> Some(1), bits |-> 3]
    /\ out.str = <<"0", "Q">>
    /\ toString([val |-> Some(0), bits |-> 2], "4h", kx_label, kx_tr).str = <<"0">>

\* C30: in every state reachable by refresh(level) and setKey(key) calls on
\* one labeled curve, a non-null sbiID has bits equal to the current keyBits.
C30_LabelWidthIsKeyBits ==
    sbiID.val # Null => sbiID.bits = keyBits

====
